---- MODULE Spec2Model ----
(***************************************************************************)
(* A model of three pieces of the request-handling stack:                  *)
(*   - django/core/handlers/wsgi.py: LimitedStream and the part of         *)
(*     WSGIRequest.__init__ that builds the body stream;                   *)
(*   - django_redis/cache.py: the omit_exception decorator and the         *)
(*     RedisCache forwarding methods;                                      *)
(*   - rest_framework/views.py: exception_handler and APIView.dispatch     *)
(*     with the hooks it calls.                                            *)
(* Each piece has its own specification over its own variables; the other  *)
(* pieces' variables stay at their initial values.                         *)
(***************************************************************************)
EXTENDS Integers, Sequences, FiniteSets, TLC

(***************************************************************************)
(* Bounds of the model.                                                    *)
(***************************************************************************)
\* longest content of the wrapped stream (wsgi.input)
MaxData == 3
\* largest limit a LimitedStream is created with directly
MaxLimit == 3
\* largest size argument given to read / readline
MaxSize == 2
\* number of read / readline calls on one stream
MaxOps == 3
\* longest CONTENT_LENGTH string
MaxClLen == 2

(***************************************************************************)
(* Python values shared by the parts.                                      *)
(***************************************************************************)
\* An optional value: <<>> is None (or an absent key), <<v>> is v.
None == <<>>
Some(v) == <<v>>

Min(a, b) == IF a < b THEN a ELSE b
Max(a, b) == IF a > b THEN a ELSE b

SeqsUpTo(S, n) == UNION {[1..k -> S] : k \in 0..n}

VARIABLES
    \* ---- wsgi.py ----
    data,        \* the bytes the wrapped stream holds, fixed for a run
    pos,         \* how many bytes have been taken from the wrapped stream
    nreads,      \* how many times the wrapped stream's read() was called
    env_cl,      \* environ.get('CONTENT_LENGTH'): None or a string
    limit,       \* the limit the LimitedStream was created with
    remaining,   \* LimitedStream.remaining
    buffer,      \* LimitedStream.buffer
    result,      \* what the most recent read / readline returned
    ops,         \* number of read / readline calls made so far
    \* ---- cache.py ----
    ignore_exceptions,  \* RedisCache._ignore_exceptions
    cache_call,         \* the most recent call of a cache method, as the caller made it
    client_calls,       \* the calls that cache method made on self.client
    client_out,         \* what the client method did: returned a value or raised
    outcome,            \* what the cache method did: returned a value or raised
    \* ---- views.py ----
    DEBUG,              \* settings.DEBUG
    authenticators,     \* per authenticator class, what authenticate_header returns
    n_renderers,        \* len(self.renderer_classes)
    method_in_names,    \* request.method.lower() is in self.http_method_names
    view_defines_method,  \* the view has an attribute named request.method.lower()
    pc,                 \* where dispatch is
    hooks,              \* the steps dispatch has run, in order
    accepted_renderer,  \* request.accepted_renderer is set
    successful_authenticator,  \* request.successful_authenticator is set
    permissions,        \* what each permission of the view does when consulted
    consulted,          \* the permissions check_permissions consulted, in order
    handler,            \* the callable dispatch selected as handler
    raised_in,          \* the step whose exception dispatch caught
    raised_exc,         \* that exception as it was raised
    exc,                \* that exception object as it is now
    handler_result,     \* what the exception handler returned
    response,           \* dispatch's local variable response
    self_response,      \* self.response
    dispatch_raised     \* the exception that left dispatch

viewVars == <<DEBUG, authenticators, n_renderers, method_in_names,
              view_defines_method, pc, hooks,
              accepted_renderer, successful_authenticator, permissions,
              consulted, handler, raised_in, raised_exc, exc,
              handler_result, response, self_response, dispatch_raised>>

cacheVars == <<ignore_exceptions, cache_call, client_calls, client_out, outcome>>

streamVars == <<data, pos, nreads, env_cl, limit, remaining, buffer, result, ops>>

(***************************************************************************)
(* wsgi.py: the wrapped stream.  A byte is a newline or any other byte.    *)
(***************************************************************************)
NL == "\n"
Byte == {"x", NL}

\* stream.read(n) on a file-like object: the possible numbers of bytes it
\* returns.  n < 0 reads to the end of the stream; n > 0 returns at least one
\* byte unless the stream is at its end, and never more than n.
StreamRead(d, p, n) ==
    LET avail == Len(d) - p IN
    IF n < 0 THEN {avail}
    ELSE IF n = 0 \/ avail = 0 THEN {0}
    ELSE 1..Min(n, avail)

Drop(s, k) == SubSeq(s, k + 1, Len(s))
Take(s, k) == SubSeq(s, 1, k)

(***************************************************************************)
(* wsgi.py: LimitedStream.  A stream state is a record                     *)
(*   [remaining, buffer, pos, nreads].                                     *)
(***************************************************************************)
LimitedStream_init(p, lim) ==
    [remaining |-> lim, buffer |-> <<>>, pos |-> p, nreads |-> 0]

\* _read_limited without the clamp of size to self.remaining
read_limited_unclamped(size, d, st) ==
    LET sz == IF size = None THEN st.remaining ELSE size[1] IN
    IF sz = 0
    THEN {[chunk |-> <<>>, st |-> st]}
    ELSE {[chunk |-> SubSeq(d, st.pos + 1, st.pos + k),
           st |-> [st EXCEPT !.remaining = @ - k,
                             !.pos = @ + k,
                             !.nreads = @ + 1]]
          : k \in StreamRead(d, st.pos, sz)}

\* LimitedStream._read_limited(size): the set of outcomes [chunk, st].
read_limited(size, d, st) ==
    LET sz == IF size = None \/ size[1] > st.remaining
              THEN st.remaining ELSE size[1] IN
    IF sz = 0
    THEN {[chunk |-> <<>>, st |-> st]}
    ELSE {[chunk |-> SubSeq(d, st.pos + 1, st.pos + k),
           st |-> [st EXCEPT !.remaining = @ - k,
                             !.pos = @ + k,
                             !.nreads = @ + 1]]
          : k \in StreamRead(d, st.pos, sz)}

\* LimitedStream.read(size): the set of outcomes [result, st].
LimitedStream_read(size, d, st) ==
    IF size = None
    THEN {[result |-> st.buffer \o o.chunk,
           st |-> [o.st EXCEPT !.buffer = <<>>]]
          : o \in read_limited(None, d, st)}
    ELSE IF size[1] < Len(st.buffer)
    THEN {[result |-> Take(st.buffer, size[1]),
           st |-> [st EXCEPT !.buffer = Drop(st.buffer, size[1])]]}
    ELSE {[result |-> st.buffer \o o.chunk,
           st |-> [o.st EXCEPT !.buffer = <<>>]]
          : o \in read_limited(Some(size[1] - Len(st.buffer)), d, st)}

HasNL(s) == \E i \in 1..Len(s) : s[i] = NL

\* Python truthiness of an optional integer: None and 0 are false.
Truthy(size) == size # None /\ size[1] # 0

\* The while loop of LimitedStream.readline: the stream states it can end in.
RECURSIVE readline_loop(_, _, _)
readline_loop(size, d, st) ==
    IF ~HasNL(st.buffer) /\ (size = None \/ Len(st.buffer) < size[1])
    THEN UNION {
           IF o.chunk = <<>>
           THEN {o.st}
           ELSE readline_loop(size, d,
                              [o.st EXCEPT !.buffer = st.buffer \o o.chunk])
           : o \in IF Truthy(size)
                   THEN read_limited(Some(size[1] - Len(st.buffer)), d, st)
                   ELSE read_limited(None, d, st)}
    ELSE {st}

\* BytesIO(b).readline(size): the length of the line returned; size None
\* means unlimited.
FirstNL(b) ==
    IF HasNL(b) THEN CHOOSE i \in 1..Len(b) :
                        b[i] = NL /\ \A j \in 1..(i - 1) : b[j] # NL
    ELSE Len(b)
BytesIO_readline(b, size) ==
    IF size = None \/ size[1] < 0 THEN FirstNL(b) ELSE Min(FirstNL(b), size[1])

\* LimitedStream.readline(size): the set of outcomes [result, st].
LimitedStream_readline(size, d, st) ==
    {LET n == BytesIO_readline(s.buffer, IF Truthy(size) THEN size ELSE None) IN
     [result |-> Take(s.buffer, n),
      st |-> [s EXCEPT !.buffer = Drop(s.buffer, n)]]
     : s \in readline_loop(size, d, st)}

(***************************************************************************)
(* wsgi.py: WSGIRequest.__init__, the CONTENT_LENGTH part.                 *)
(***************************************************************************)
ClChar == {"-", "0", "1", "2", "x"}
Digits == {"0", "1", "2"}
DigitVal(c) == CASE c = "0" -> 0 [] c = "1" -> 1 [] c = "2" -> 2

RECURSIVE DecVal(_)
DecVal(s) == IF s = <<>> THEN 0
             ELSE 10 * DecVal(Take(s, Len(s) - 1)) + DigitVal(s[Len(s)])

AllDigits(s) == s # <<>> /\ \A i \in 1..Len(s) : s[i] \in Digits

\* int(v) for v None or a string over ClChar: Some(n), or None for the
\* ValueError / TypeError that int raises.
PyInt(v) ==
    IF v = None THEN None
    ELSE LET s == v[1] IN
         IF AllDigits(s) THEN Some(DecVal(s))
         ELSE IF s # <<>> /\ s[1] = "-" /\ AllDigits(Drop(s, 1))
              THEN Some(0 - DecVal(Drop(s, 1)))
              ELSE None

\* content_length as WSGIRequest.__init__ computes it.
content_length(cl) == IF PyInt(cl) = None THEN 0 ELSE PyInt(cl)[1]

(***************************************************************************)
(* wsgi.py: the state machine of one body stream.                          *)
(***************************************************************************)
Sizes == {None} \cup {Some(n) : n \in 0..MaxSize}

StreamState == [remaining |-> remaining, buffer |-> buffer,
                pos |-> pos, nreads |-> nreads]

Install(o) ==
    /\ remaining' = o.st.remaining
    /\ buffer' = o.st.buffer
    /\ pos' = o.st.pos
    /\ nreads' = o.st.nreads
    /\ result' = o.result
    /\ ops' = ops + 1
    /\ UNCHANGED <<data, env_cl, limit>>
    /\ UNCHANGED <<cacheVars, viewVars>>

Read ==
    /\ ops < MaxOps
    /\ \E size \in Sizes :
         \E o \in LimitedStream_read(size, data, StreamState) : Install(o)

Readline ==
    /\ ops < MaxOps
    /\ \E size \in Sizes :
         \E o \in LimitedStream_readline(size, data, StreamState) : Install(o)

StreamNext == Read \/ Readline

(***************************************************************************)
(* cache.py: values, calls and outcomes.                                   *)
(***************************************************************************)
\* DJANGO_REDIS_SCAN_ITERSIZE, the default of the setting
DJANGO_REDIS_SCAN_ITERSIZE == 10

\* Python values are tagged pairs.
V_None == <<"None", 0>>
V_Int(n) == <<"int", n>>
V_Obj(i) == <<"obj", i>>
V_EmptyDict == <<"dict", 0>>

\* values a caller passes and a client returns
ArgVals == {V_None, V_Obj(1)}

\* keyword arguments: a function from the names given to their values
KwNames == {"default", "version", "itersize"}
KwFns(names) == UNION {[S -> ArgVals] : S \in SUBSET names}
NoKw == [n \in {} |-> V_None]

\* An exception is a type and, for ConnectionInterrupted, the type of the
\* underlying error it carries as e.parent.
NoExc == [type |-> "", parent |-> ""]
ConnectionInterrupted(parent) ==
    [type |-> "ConnectionInterrupted", parent |-> parent]
OtherError(type) == [type |-> type, parent |-> ""]
ParentTypes == {"ConnectionError", "TimeoutError"}

\* What a call did: returned val, or raised exc.
Return(v) == [kind |-> "return", val |-> v, exc |-> NoExc]
Raise(e) == [kind |-> "raise", val |-> V_None, exc |-> e]

IsConnectionInterrupted(o) ==
    o.kind = "raise" /\ o.exc.type = "ConnectionInterrupted"

\* what the client method may do
ClientOutcomes ==
    {Return(v) : v \in ArgVals}
    \cup {Raise(ConnectionInterrupted(p)) : p \in ParentTypes}
    \cup {Raise(OtherError("ValueError"))}

Call(m, args, kwargs) == [method |-> m, args |-> args, kwargs |-> kwargs]
NoCall == Call("", <<>>, NoKw)

(***************************************************************************)
(* cache.py: omit_exception.                                               *)
(***************************************************************************)
\* _decorator with `raise e` in place of `raise e.parent`
omit_exception_reraise(ignore, return_value, inner) ==
    IF IsConnectionInterrupted(inner)
    THEN IF ignore THEN Return(return_value) ELSE inner
    ELSE inner

\* _decorator with the return_value argument dropped
omit_exception_none(ignore, return_value, inner) ==
    IF IsConnectionInterrupted(inner)
    THEN IF ignore THEN Return(V_None)
         ELSE Raise(OtherError(inner.exc.parent))
    ELSE inner

\* _decorator: `inner` is what the decorated method did.
omit_exception(ignore, return_value, inner) ==
    IF IsConnectionInterrupted(inner)
    THEN IF ignore THEN Return(return_value)
         ELSE Raise(OtherError(inner.exc.parent))
    ELSE inner

(***************************************************************************)
(* cache.py: the method bodies.  A body gives the calls made on the client *)
(* and what the undecorated method does, given what the client does.       *)
(***************************************************************************)
\* the methods defined as  return self.client.<m>(*args, **kwargs)
ForwardMethods ==
    {"set", "incr_version", "add", "delete", "delete_many", "set_many",
     "incr", "decr", "has_key", "keys", "iter_keys", "ttl", "persist",
     "expire", "lock"}

\* Python's binding of a call to named parameters with None defaults:
\* positional arguments first, then keywords.
SeqIndex(params, n) == CHOOSE i \in 1..Len(params) : params[i] = n
Bound(params, args, kwargs, n) ==
    IF SeqIndex(params, n) <= Len(args) THEN args[SeqIndex(params, n)]
    ELSE IF n \in DOMAIN kwargs THEN kwargs[n]
    ELSE V_None
\* the call is accepted: no TypeError for a missing, extra or doubled argument
ValidCall(params, required, args, kwargs) ==
    /\ Len(args) <= Len(params)
    /\ \A n \in DOMAIN kwargs :
         /\ \E i \in 1..Len(params) : params[i] = n
         /\ SeqIndex(params, n) > Len(args)
    /\ \A n \in required :
         SeqIndex(params, n) <= Len(args) \/ n \in DOMAIN kwargs

GetParams == <<"key", "default", "version", "client">>
TouchParams == <<"key", "timeout", "version">>

forward_body(m, args, kwargs, client) ==
    [calls |-> <<Call(m, args, kwargs)>>, out |-> client]

\* delete_pattern without the itersize default
delete_pattern_plain(args, kwargs, client) ==
    [calls |-> <<Call("delete_pattern", args, kwargs)>>, out |-> client]

delete_pattern_body(args, kwargs, client) ==
    LET kw == [n \in DOMAIN kwargs \cup {"itersize"} |->
                 IF n \in DOMAIN kwargs THEN kwargs[n]
                 ELSE V_Int(DJANGO_REDIS_SCAN_ITERSIZE)] IN
    [calls |-> <<Call("delete_pattern", args, kw)>>, out |-> client]

get_body(ignore, args, kwargs, client) ==
    LET b(n) == Bound(GetParams, args, kwargs, n) IN
    [calls |-> <<Call("get", <<b("key")>>,
                      [n \in {"default", "version", "client"} |-> b(n)])>>,
     out |-> IF IsConnectionInterrupted(client)
             THEN IF ignore THEN Return(b("default")) ELSE client
             ELSE client]

clear_body(client) ==
    [calls |-> <<Call("clear", <<>>, NoKw)>>, out |-> client]

close_body(kwargs, client) ==
    [calls |-> <<Call("close", <<>>, kwargs)>>,
     out |-> IF client.kind = "return" THEN Return(V_None) ELSE client]

touch_body(args, kwargs, client) ==
    LET b(n) == Bound(TouchParams, args, kwargs, n) IN
    [calls |-> <<Call("touch", <<b("key")>>,
                      [n \in {"timeout", "version"} |-> b(n)])>>,
     out |-> client]

(***************************************************************************)
(* cache.py: one action per kind of decorated method.                      *)
(***************************************************************************)
\* longest positional argument list a caller passes
MaxArgs == 2

\* the call has not run yet
Pending == [kind |-> "pending", val |-> V_None, exc |-> NoExc]

Decorated(body, return_value) ==
    /\ outcome = Pending
    /\ client_calls' = body.calls
    /\ outcome' = omit_exception(ignore_exceptions, return_value, body.out)
    /\ UNCHANGED <<ignore_exceptions, cache_call, client_out>>
    /\ UNCHANGED <<streamVars, viewVars>>

Forward ==
    /\ cache_call.method \in ForwardMethods
    /\ Decorated(forward_body(cache_call.method, cache_call.args,
                              cache_call.kwargs, client_out), V_None)

GetMany ==
    /\ cache_call.method = "get_many"
    /\ Decorated(forward_body("get_many", cache_call.args,
                              cache_call.kwargs, client_out), V_EmptyDict)

DeletePattern ==
    /\ cache_call.method = "delete_pattern"
    /\ Decorated(delete_pattern_body(cache_call.args, cache_call.kwargs,
                                     client_out), V_None)

Get ==
    /\ cache_call.method = "get"
    /\ Decorated(get_body(ignore_exceptions, cache_call.args,
                          cache_call.kwargs, client_out), V_None)

Clear ==
    /\ cache_call.method = "clear"
    /\ Decorated(clear_body(client_out), V_None)

Close ==
    /\ cache_call.method = "close"
    /\ Decorated(close_body(cache_call.kwargs, client_out), V_None)

Touch ==
    /\ cache_call.method = "touch"
    /\ Decorated(touch_body(cache_call.args, cache_call.kwargs, client_out),
                 V_None)

CacheNext ==
    Forward \/ GetMany \/ DeletePattern \/ Get \/ Clear \/ Close \/ Touch

\* the calls Python accepts: the ones that raise no TypeError when the
\* arguments are bound to the method's signature
CacheCalls ==
    {Call(m, args, kwargs) :
        m \in ForwardMethods \cup {"get_many", "delete_pattern"},
        args \in SeqsUpTo(ArgVals, MaxArgs), kwargs \in KwFns(KwNames)}
    \cup {c \in {Call("get", args, kwargs) :
                    args \in SeqsUpTo(ArgVals, MaxArgs),
                    kwargs \in KwFns(KwNames)} :
            ValidCall(GetParams, {"key"}, c.args, c.kwargs)}
    \cup {c \in {Call("touch", args, kwargs) :
                    args \in SeqsUpTo(ArgVals, MaxArgs),
                    kwargs \in KwFns(KwNames)} :
            ValidCall(TouchParams, {"key"}, c.args, c.kwargs)}
    \cup {Call("clear", <<>>, NoKw)}
    \cup {Call("close", <<>>, kwargs) : kwargs \in KwFns(KwNames)}

\* RedisCache.__init__ (IGNORE_EXCEPTIONS from the options or the setting),
\* then a caller about to call one method while the client behaves one way.
CacheInit ==
    /\ ignore_exceptions \in BOOLEAN
    /\ cache_call \in CacheCalls
    /\ client_out \in ClientOutcomes
    /\ client_calls = <<>>
    /\ outcome = Pending

(***************************************************************************)
(* views.py: exceptions and responses.                                     *)
(***************************************************************************)
\* status.HTTP_403_FORBIDDEN
HTTP_403_FORBIDDEN == 403

\* the classes of rest_framework.exceptions that derive from APIException
APIExceptionTypes ==
    {"APIException", "NotFound", "PermissionDenied", "NotAuthenticated",
     "AuthenticationFailed", "Throttled", "MethodNotAllowed", "NotAcceptable",
     "ValidationError"}

\* the status_code class attribute of each of them
DefaultStatusCode(type) ==
    CASE type = "NotFound" -> 404
      [] type = "PermissionDenied" -> 403
      [] type = "NotAuthenticated" -> 401
      [] type = "AuthenticationFailed" -> 401
      [] type = "Throttled" -> 429
      [] type = "MethodNotAllowed" -> 405
      [] type = "NotAcceptable" -> 406
      [] type = "ValidationError" -> 400
      [] OTHER -> 500

\* exc.detail: a string, a list or a dict
Detail(kind) == <<kind, 0>>
NoDetail == Detail("none")

\* An exception object: its class and the attributes the views read.
APIExc(type, detail) ==
    [type |-> type, status_code |-> DefaultStatusCode(type), detail |-> detail,
     auth_header |-> None, wait |-> None]
PlainExc(type) ==
    [type |-> type, status_code |-> 0, detail |-> NoDetail,
     auth_header |-> None, wait |-> None]
NoException == PlainExc("")

\* isinstance(exc, exceptions.APIException)
IsAPIException(ex) == ex.type \in APIExceptionTypes

\* Python truthiness of an optional string and of an optional number
TruthyStr(s) == s # None /\ s[1] # ""
TruthyNum(n) == n # None /\ n[1] # 0

NoHeaders == [n \in {} |-> <<"", 0>>]
WithHeader(h, name, value) ==
    [n \in DOMAIN h \cup {name} |-> IF n = name THEN value ELSE h[n]]

\* A response object.  data is <<"detail", d>> for {'detail': d} and
\* <<"is", d>> for d itself.
Response(body, status_code, headers) ==
    [kind |-> "Response", status |-> status_code, data |-> body,
     headers |-> headers, exception |-> FALSE, renderer |-> FALSE]
HttpResponse(status_code) ==
    [kind |-> "HttpResponse", status |-> status_code, data |-> <<"is", NoDetail>>,
     headers |-> NoHeaders, exception |-> FALSE, renderer |-> FALSE]
\* a handler's return value that is no response object
NotAResponse ==
    [kind |-> "object", status |-> 0, data |-> <<"is", NoDetail>>,
     headers |-> NoHeaders, exception |-> FALSE, renderer |-> FALSE]

(***************************************************************************)
(* views.py: exception_handler.                                            *)
(***************************************************************************)
ExceptionData(ex) ==
    IF ex.detail[1] \in {"list", "dict"}
    THEN <<"is", ex.detail>>
    ELSE <<"detail", ex.detail>>

ExceptionHeaders(ex) ==
    LET h1 == IF TruthyStr(ex.auth_header)
              THEN WithHeader(NoHeaders, "WWW-Authenticate", <<ex.auth_header[1], 0>>)
              ELSE NoHeaders IN
    IF TruthyNum(ex.wait)
    THEN WithHeader(h1, "Retry-After", <<"%d", ex.wait[1]>>)
    ELSE h1

\* exception_handler without the branch for Django's PermissionDenied
exception_handler_no_denied(ex) ==
    LET e == IF ex.type = "Http404"
             THEN APIExc("NotFound", Detail("str"))
             ELSE ex IN
    IF IsAPIException(e)
    THEN Some(Response(ExceptionData(e), e.status_code, ExceptionHeaders(e)))
    ELSE None

\* exception_handler(ex, context): Some(response) or None
exception_handler(ex) ==
    LET e == IF ex.type = "Http404"
             THEN APIExc("NotFound", Detail("str"))
             ELSE IF ex.type = "DjangoPermissionDenied"
                  THEN APIExc("PermissionDenied", Detail("str"))
                  ELSE ex IN
    IF IsAPIException(e)
    THEN Some(Response(ExceptionData(e), e.status_code, ExceptionHeaders(e)))
    ELSE None

(***************************************************************************)
(* views.py: APIView.handle_exception and what it calls.                   *)
(***************************************************************************)
\* get_authenticate_header with the last authenticator in place of the first
get_authenticate_header_last(auths) ==
    IF auths # <<>> THEN auths[Len(auths)] ELSE None

\* APIView.get_authenticate_header: `auths` holds, per authenticator of the
\* view, what its authenticate_header returns (None or a string).
get_authenticate_header(auths) ==
    IF auths # <<>> THEN auths[1] ELSE None

\* the first part of handle_exception: the exception object as it is when
\* the exception handler is called
coerce_auth_exception(ex, auths) ==
    IF ex.type \in {"NotAuthenticated", "AuthenticationFailed"}
    THEN LET auth_header == get_authenticate_header(auths) IN
         IF TruthyStr(auth_header)
         THEN [ex EXCEPT !.auth_header = auth_header]
         ELSE [ex EXCEPT !.status_code = HTTP_403_FORBIDDEN]
    ELSE ex

\* raise_uncaught_exception: the exception that leaves it.  With
\* settings.DEBUG it first reads request.accepted_renderer, an attribute
\* that only initial() sets, after content negotiation succeeded.
raise_uncaught_exception(ex, debug, has_renderer) ==
    IF debug /\ ~has_renderer THEN PlainExc("AttributeError") ELSE ex

(***************************************************************************)
(* views.py: APIView.check_permissions and APIView.check_throttles.        *)
(***************************************************************************)
\* what one permission of the view does: has_permission() and, when that
\* is false, the message attribute check_permissions reads (None when the
\* permission has none)
PermissionResults ==
    {[allow |-> TRUE, message |-> None]}
    \cup {[allow |-> FALSE, message |-> m] : m \in {None, Some(1), Some(2)}}

\* APIException.detail after __init__(detail=message): the message, or the
\* class's default detail when message is None
MessageDetail(message) ==
    IF message = None THEN Detail("str") ELSE <<"str", message[1]>>

\* APIView.permission_denied: the exception it raises
permission_denied(auths, successful, message) ==
    IF auths # <<>> /\ ~successful
    THEN APIExc("NotAuthenticated", Detail("str"))
    ELSE APIExc("PermissionDenied", MessageDetail(message))

\* the for loop of check_permissions from permission i on, `seen` being the
\* permissions consulted before: the permissions consulted, in order, and
\* NoException or the exception raised
RECURSIVE permissions_loop(_, _, _, _, _)
permissions_loop(perms, i, seen, auths, successful) ==
    IF i > Len(perms)
    THEN [consulted |-> seen, exc |-> NoException]
    ELSE IF ~perms[i].allow
         THEN [consulted |-> Append(seen, i),
               exc |-> permission_denied(auths, successful, perms[i].message)]
         ELSE permissions_loop(perms, i + 1, Append(seen, i), auths, successful)

\* a loop that asks every permission before it raises for the first denial
RECURSIVE permissions_loop_all(_, _, _, _, _)
permissions_loop_all(perms, i, seen, auths, successful) ==
    IF i > Len(perms)
    THEN [consulted |-> seen,
          exc |-> IF \E j \in 1..Len(perms) : ~perms[j].allow
                  THEN LET f == CHOOSE j \in 1..Len(perms) :
                                   /\ ~perms[j].allow
                                   /\ \A k \in 1..(j - 1) : perms[k].allow IN
                       permission_denied(auths, successful, perms[f].message)
                  ELSE NoException]
    ELSE permissions_loop_all(perms, i + 1, Append(seen, i), auths, successful)

\* check_permissions in the manner of check_throttles
check_permissions_all(perms, auths, successful) ==
    permissions_loop_all(perms, 1, <<>>, auths, successful)

\* APIView.check_permissions: the permissions consulted and NoException or
\* the exception raised
check_permissions(perms, auths, successful) ==
    permissions_loop(perms, 1, <<>>, auths, successful)

\* what one throttle does: allow_request() and, when it denies, wait()
ThrottleResults ==
    {[allow |-> TRUE, wait |-> None]}
    \cup {[allow |-> FALSE, wait |-> w] : w \in {None, Some(1), Some(2)}}

RECURSIVE MaxOf(_)
MaxOf(S) == IF S = {} THEN 0
            ELSE LET x == CHOOSE x \in S : TRUE IN Max(x, MaxOf(S \ {x}))

\* APIView.check_throttles: NoException, or the Throttled raised
check_throttles(results) ==
    LET denied == {i \in 1..Len(results) : ~results[i].allow}
        durations == {results[i].wait[1] :
                        i \in {j \in denied : results[j].wait # None}} IN
    IF denied = {} THEN NoException
    ELSE [APIExc("Throttled", Detail("str")) EXCEPT
            !.wait = IF durations = {} THEN None ELSE Some(MaxOf(durations))]

(***************************************************************************)
(* views.py: APIView.dispatch as a sequence of steps.                      *)
(***************************************************************************)
\* most authenticators, permissions, throttles and renderers of a view
MaxAuth == 2
MaxPerms == 2
MaxThrottles == 2
MaxRenderers == 2

\* what an authenticator's authenticate_header returns
AuthHeaders == {None, Some(""), Some("Basic")}

\* initial() with the permission check before authentication
AfterOk_swapped(step) ==
    CASE step = "negotiation" -> "version"
      [] step = "version" -> "permissions"
      [] step = "permissions" -> "authentication"
      [] step = "authentication" -> "throttles"
      [] step = "throttles" -> "handler"

\* the step that follows a step that raised nothing: the statement order of
\* initial(), then the handler call of dispatch
AfterOk(step) ==
    CASE step = "negotiation" -> "version"
      [] step = "version" -> "authentication"
      [] step = "authentication" -> "permissions"
      [] step = "permissions" -> "throttles"
      [] step = "throttles" -> "handler"

\* a try block that lets a throttled request through to the handler
AfterRaise_throttle_ignored(step) ==
    IF step = "throttles" THEN "handler" ELSE "handle_exception"

\* the step that follows a step that raised: dispatch's except clause
AfterRaise(step) == "handle_exception"

StepOk(step) ==
    /\ pc' = AfterOk(step)
    /\ hooks' = Append(hooks, step)
    /\ UNCHANGED <<raised_in, raised_exc, exc>>

StepRaise(step, e) ==
    /\ pc' = AfterRaise(step)
    /\ hooks' = Append(hooks, step)
    /\ raised_in' = step
    /\ raised_exc' = e
    /\ exc' = e

ViewConfig == <<DEBUG, authenticators, n_renderers, method_in_names,
                view_defines_method>>

\* dispatch up to the try block: initialize_request, self.request, self.headers
InitializeRequest ==
    /\ pc = "start"
    /\ pc' = "negotiation"
    /\ hooks' = Append(hooks, "initialize_request")
    /\ UNCHANGED <<ViewConfig, accepted_renderer, successful_authenticator,
                   permissions, consulted, handler, raised_in,
                   raised_exc, exc, handler_result, response, self_response,
                   dispatch_raised>>
    /\ UNCHANGED <<streamVars, cacheVars>>

\* initial(): perform_content_negotiation and the assignment of its result
PerformContentNegotiation ==
    /\ pc = "negotiation"
    /\ \/ /\ StepOk("negotiation")
          /\ accepted_renderer' = TRUE
       \/ /\ \E e \in {APIExc("NotAcceptable", Detail("str")),
                       PlainExc("Http404"), PlainExc("ValueError")} :
                StepRaise("negotiation", e)
          /\ UNCHANGED accepted_renderer
    /\ UNCHANGED <<ViewConfig, successful_authenticator, permissions,
                   consulted, handler, handler_result, response,
                   self_response, dispatch_raised>>
    /\ UNCHANGED <<streamVars, cacheVars>>

\* initial(): determine_version
DetermineVersion ==
    /\ pc = "version"
    /\ \/ StepOk("version")
       \/ StepRaise("version", APIExc("NotFound", Detail("str")))
    /\ UNCHANGED <<ViewConfig, accepted_renderer, successful_authenticator,
                   permissions, consulted, handler, handler_result,
                   response, self_response, dispatch_raised>>
    /\ UNCHANGED <<streamVars, cacheVars>>

\* initial(): perform_authentication, that is request.user
PerformAuthentication ==
    /\ pc = "authentication"
    /\ \/ /\ StepOk("authentication")
          /\ successful_authenticator' \in
                IF authenticators = <<>> THEN {FALSE} ELSE BOOLEAN
       \/ /\ authenticators # <<>>
          /\ StepRaise("authentication",
                       APIExc("AuthenticationFailed", Detail("str")))
          /\ UNCHANGED successful_authenticator
       \/ /\ StepRaise("authentication", PlainExc("ValueError"))
          /\ UNCHANGED successful_authenticator
    /\ UNCHANGED <<ViewConfig, accepted_renderer, permissions, consulted,
                   handler, handler_result, response,
                   self_response, dispatch_raised>>
    /\ UNCHANGED <<streamVars, cacheVars>>

\* initial(): check_permissions
CheckPermissions ==
    /\ pc = "permissions"
    /\ \E perms \in SeqsUpTo(PermissionResults, MaxPerms) :
         LET r == check_permissions(perms, authenticators,
                                    successful_authenticator) IN
         /\ permissions' = perms
         /\ consulted' = r.consulted
         /\ IF r.exc = NoException
            THEN StepOk("permissions")
            ELSE StepRaise("permissions", r.exc)
    /\ UNCHANGED <<ViewConfig, accepted_renderer, successful_authenticator,
                   handler, handler_result, response,
                   self_response, dispatch_raised>>
    /\ UNCHANGED <<streamVars, cacheVars>>

\* initial(): check_throttles
CheckThrottles ==
    /\ pc = "throttles"
    /\ \E results \in SeqsUpTo(ThrottleResults, MaxThrottles) :
         LET e == check_throttles(results) IN
         /\ IF e = NoException
            THEN StepOk("throttles")
            ELSE StepRaise("throttles", e)
    /\ UNCHANGED <<ViewConfig, accepted_renderer, successful_authenticator,
                   permissions, consulted, handler, handler_result, response,
                   self_response, dispatch_raised>>
    /\ UNCHANGED <<streamVars, cacheVars>>

\* what a handler method of the view may raise
HandlerExceptions ==
    {PlainExc("Http404"), PlainExc("DjangoPermissionDenied"),
     PlainExc("ValueError"),
     APIExc("NotAuthenticated", Detail("str")),
     APIExc("AuthenticationFailed", Detail("str")),
     APIExc("PermissionDenied", Detail("str")),
     APIExc("APIException", Detail("str")),
     APIExc("ValidationError", Detail("list")),
     APIExc("ValidationError", Detail("dict"))}

\* what a handler method of the view may return
HandlerReturns ==
    {Response(<<"is", Detail("dict")>>, 200, NoHeaders),
     Response(<<"is", Detail("list")>>, 201, NoHeaders),
     HttpResponse(200), NotAResponse}

\* a lookup that does not ask http_method_names
select_handler_any_name(in_names, defined) ==
    IF defined THEN "view_method" ELSE "http_method_not_allowed"

\* dispatch: the handler lookup
select_handler(in_names, defined) ==
    IF in_names
    THEN IF defined THEN "view_method" ELSE "http_method_not_allowed"
    ELSE "http_method_not_allowed"

\* APIView.http_method_not_allowed: the exception it raises
http_method_not_allowed == APIExc("MethodNotAllowed", Detail("str"))

\* dispatch: the handler lookup and the handler call
InvokeHandler ==
    /\ pc = "handler"
    /\ hooks' = Append(hooks, "handler")
    /\ handler' = select_handler(method_in_names, view_defines_method)
    /\ \/ /\ handler' = "view_method"
          /\ \/ /\ response' \in {Some(r) : r \in HandlerReturns}
                /\ pc' = "finalize"
                /\ UNCHANGED <<raised_in, raised_exc, exc>>
             \/ /\ \E e \in HandlerExceptions :
                     /\ pc' = AfterRaise("handler")
                     /\ raised_in' = "handler"
                     /\ raised_exc' = e
                     /\ exc' = e
                /\ UNCHANGED response
       \/ /\ handler' = "http_method_not_allowed"
          /\ pc' = AfterRaise("handler")
          /\ raised_in' = "handler"
          /\ raised_exc' = http_method_not_allowed
          /\ exc' = http_method_not_allowed
          /\ UNCHANGED response
    /\ UNCHANGED <<ViewConfig, accepted_renderer, successful_authenticator,
                   permissions, consulted, handler_result,
                   self_response, dispatch_raised>>
    /\ UNCHANGED <<streamVars, cacheVars>>

\* dispatch's except clause: handle_exception
HandleException ==
    /\ pc = "handle_exception"
    /\ hooks' = Append(hooks, "handle_exception")
    /\ LET e == coerce_auth_exception(exc, authenticators)
           r == exception_handler(e) IN
       /\ exc' = e
       /\ handler_result' = r
       /\ IF r = None
          THEN /\ dispatch_raised' =
                     raise_uncaught_exception(e, DEBUG, accepted_renderer)
               /\ pc' = "raised"
               /\ UNCHANGED response
          ELSE /\ response' = Some([r[1] EXCEPT !.exception = TRUE])
               /\ pc' = "finalize"
               /\ UNCHANGED dispatch_raised
    /\ UNCHANGED <<ViewConfig, accepted_renderer, successful_authenticator,
                   permissions, consulted, handler, raised_in,
                   raised_exc, self_response>>
    /\ UNCHANGED <<streamVars, cacheVars>>

\* APIView.finalize_response on a response object
finalize_response(r, renderers) ==
    LET h1 == IF renderers > 1
              THEN WithHeader(r.headers, "Vary", <<"Accept", 0>>)
              ELSE r.headers IN
    [r EXCEPT !.renderer = (r.kind = "Response"),
              !.headers = WithHeader(h1, "Allow", <<"allowed_methods", 0>>)]

\* dispatch: finalize_response, the assignment to self.response, the return
FinalizeResponse ==
    /\ pc = "finalize"
    /\ hooks' = Append(hooks, "finalize_response")
    /\ IF response[1].kind = "object"
       THEN /\ dispatch_raised' = PlainExc("AssertionError")
            /\ pc' = "raised"
            /\ UNCHANGED <<response, self_response, accepted_renderer>>
       ELSE /\ accepted_renderer' =
                 (accepted_renderer \/ response[1].kind = "Response")
            /\ response' = Some(finalize_response(response[1], n_renderers))
            /\ self_response' = response'
            /\ pc' = "returned"
            /\ UNCHANGED dispatch_raised
    /\ UNCHANGED <<ViewConfig, successful_authenticator, permissions,
                   consulted, handler, raised_in, raised_exc, exc,
                   handler_result>>
    /\ UNCHANGED <<streamVars, cacheVars>>

ViewNext ==
    \/ InitializeRequest
    \/ PerformContentNegotiation
    \/ DetermineVersion
    \/ PerformAuthentication
    \/ CheckPermissions
    \/ CheckThrottles
    \/ InvokeHandler
    \/ HandleException
    \/ FinalizeResponse

\* the request state of a view whose dispatch has not begun
ViewStart ==
    /\ pc = "start"
    /\ hooks = <<>>
    /\ accepted_renderer = FALSE
    /\ successful_authenticator = FALSE
    /\ permissions = <<>>
    /\ consulted = <<>>
    /\ handler = ""
    /\ raised_in = ""
    /\ raised_exc = NoException
    /\ exc = NoException
    /\ handler_result = None
    /\ response = None
    /\ self_response = None
    /\ dispatch_raised = NoException

\* a view class and its settings, and a request about to be dispatched
ViewInit ==
    /\ DEBUG \in BOOLEAN
    /\ authenticators \in SeqsUpTo(AuthHeaders, MaxAuth)
    /\ n_renderers \in 1..MaxRenderers
    /\ method_in_names \in BOOLEAN
    /\ view_defines_method \in BOOLEAN
    /\ ViewStart

\* no view in use
ViewIdle ==
    /\ DEBUG = FALSE
    /\ authenticators = <<>>
    /\ n_renderers = 1
    /\ method_in_names = FALSE
    /\ view_defines_method = FALSE
    /\ ViewStart

\* no cache in use
CacheIdle ==
    /\ ignore_exceptions = FALSE
    /\ cache_call = NoCall
    /\ client_calls = <<>>
    /\ client_out = Return(V_None)
    /\ outcome = Pending

\* no body stream in use
StreamIdle ==
    /\ data = <<>>
    /\ env_cl = None
    /\ limit = 0
    /\ remaining = 0
    /\ buffer = <<>>
    /\ pos = 0
    /\ nreads = 0
    /\ result = <<>>
    /\ ops = 0

vars == <<streamVars, cacheVars, viewVars>>

(***************************************************************************)
(* Specifications.                                                         *)
(***************************************************************************)
\* A LimitedStream created directly with a limit L >= 0, then read.
InitLimited ==
    /\ data \in SeqsUpTo(Byte, MaxData)
    /\ limit \in 0..MaxLimit
    /\ env_cl = None
    /\ remaining = LimitedStream_init(0, limit).remaining
    /\ buffer = LimitedStream_init(0, limit).buffer
    /\ pos = 0
    /\ nreads = 0
    /\ result = <<>>
    /\ ops = 0
    /\ CacheIdle
    /\ ViewIdle

\* The body stream of a WSGIRequest built from an environ, then read.
InitWSGI ==
    /\ data \in SeqsUpTo(Byte, MaxData)
    /\ env_cl \in {None} \cup {Some(s) : s \in SeqsUpTo(ClChar, MaxClLen)}
    /\ limit = content_length(env_cl)
    /\ remaining = LimitedStream_init(0, limit).remaining
    /\ buffer = LimitedStream_init(0, limit).buffer
    /\ pos = 0
    /\ nreads = 0
    /\ result = <<>>
    /\ ops = 0
    /\ CacheIdle
    /\ ViewIdle

\* One call of one RedisCache method.
InitCache ==
    /\ CacheInit
    /\ StreamIdle
    /\ ViewIdle

\* One request dispatched by one APIView.
InitView ==
    /\ ViewInit
    /\ StreamIdle
    /\ CacheIdle

SpecLimited == InitLimited /\ [][StreamNext]_vars
SpecWSGI == InitWSGI /\ [][StreamNext]_vars
SpecCache == InitCache /\ [][CacheNext]_vars
SpecView == InitView /\ [][ViewNext]_vars

(***************************************************************************)
(* Properties of LimitedStream and WSGIRequest.                            *)
(***************************************************************************)
C3_Accounting ==
    /\ remaining \in 0..limit
    /\ pos = limit - remaining

\* C3: a LimitedStream created with a limit L >= 0 keeps `remaining` within
\* 0..L, has taken exactly L - remaining bytes from the wrapped stream, and
\* once remaining is 0 no read or readline call reads the wrapped stream.
C3_NeverReadsPastLimit ==
    /\ []C3_Accounting
    /\ [][remaining = 0 => (nreads' = nreads /\ pos' = pos)]_vars

\* C3 witness: the wrapped stream holds more than the limit, a call has
\* drained the limit, and a later call has run with nothing remaining.
C3_Witness ==
    /\ limit > 0
    /\ Len(data) > limit
    /\ remaining = 0
    /\ pos = limit
    /\ ops >= 2
    /\ result = <<>>

\* C4: whatever CONTENT_LENGTH is, the body stream takes at most
\* max(0, CONTENT_LENGTH) bytes from wsgi.input, and with CONTENT_LENGTH
\* absent or not a number every read returns b'' and wsgi.input is not read.
C4_ReadsBoundedByContentLength ==
    /\ pos <= Max(0, content_length(env_cl))
    /\ PyInt(env_cl) = None => (nreads = 0 /\ result = <<>>)

(***************************************************************************)
(* Properties of RedisCache.                                               *)
(***************************************************************************)
Called == outcome # Pending

\* the `default` the caller of get supplied: second positional argument, or
\* the keyword, or None when not given
CallerDefault ==
    IF Len(cache_call.args) >= 2 THEN cache_call.args[2]
    ELSE IF "default" \in DOMAIN cache_call.kwargs
         THEN cache_call.kwargs["default"]
         ELSE V_None

\* C5: with exception ignoring enabled, a method whose client call raises
\* ConnectionInterrupted returns its fallback value: the caller's default for
\* get, an empty dict for get_many, None for every other method.
C5_IgnoredInterruptionReturnsFallback ==
    (Called /\ ignore_exceptions /\ IsConnectionInterrupted(client_out)) =>
        outcome = Return(CASE cache_call.method = "get" -> CallerDefault
                           [] cache_call.method = "get_many" -> V_EmptyDict
                           [] OTHER -> V_None)

\* C5 witness: get with a default given, interrupted, exceptions ignored.
C5_Witness ==
    /\ Called
    /\ ignore_exceptions
    /\ IsConnectionInterrupted(client_out)
    /\ cache_call.method = "get"
    /\ CallerDefault = V_Obj(1)
    /\ outcome = Return(V_Obj(1))

\* C6: with exception ignoring disabled, a method whose client call raises
\* ConnectionInterrupted e raises e.parent and never ConnectionInterrupted;
\* any other exception of the client propagates unchanged, whatever the
\* ignore setting.
C6_InterruptionRaisesParent ==
    Called =>
        /\ (~ignore_exceptions /\ IsConnectionInterrupted(client_out)) =>
              /\ outcome.kind = "raise"
              /\ outcome.exc.type = client_out.exc.parent
              /\ outcome.exc.type # "ConnectionInterrupted"
        /\ (client_out.kind = "raise" /\ ~IsConnectionInterrupted(client_out)) =>
              outcome = client_out

\* C6 witness: get, interrupted, exceptions not ignored, the parent raised.
C6_Witness ==
    /\ Called
    /\ ~ignore_exceptions
    /\ cache_call.method = "get"
    /\ client_out = Raise(ConnectionInterrupted("TimeoutError"))
    /\ outcome = Raise(OtherError("TimeoutError"))

\* C7 as stated: when the client raises nothing, the cache method makes
\* exactly the caller's call on the client, once, and returns its result.
C7_PurePassThrough ==
    (Called /\ client_out.kind = "return") =>
        /\ client_calls = <<cache_call>>
        /\ outcome = client_out

\* the value the caller gave for parameter n, None when the caller gave none
Given(params, n) == Bound(params, cache_call.args, cache_call.kwargs, n)

\* C7 amended: when the client raises nothing, the cache method calls the
\* same-named client method exactly once and returns its result, passing the
\* caller's arguments unchanged, except that delete_pattern adds
\* itersize=DJANGO_REDIS_SCAN_ITERSIZE when the caller gave no itersize, get
\* and touch pass key positionally and every other parameter by keyword
\* (None for those not given), and close returns None.
C7_PassThroughExceptDefaults ==
    (Called /\ client_out.kind = "return") =>
        /\ Len(client_calls) = 1
        /\ client_calls[1].method = cache_call.method
        /\ outcome = IF cache_call.method = "close"
                     THEN Return(V_None) ELSE client_out
        /\ LET c == client_calls[1] IN
           CASE cache_call.method = "delete_pattern" ->
                  /\ c.args = cache_call.args
                  /\ DOMAIN c.kwargs = DOMAIN cache_call.kwargs \cup {"itersize"}
                  /\ \A n \in DOMAIN cache_call.kwargs :
                        c.kwargs[n] = cache_call.kwargs[n]
                  /\ "itersize" \notin DOMAIN cache_call.kwargs =>
                        c.kwargs["itersize"] = V_Int(10)
             [] cache_call.method = "get" ->
                  /\ c.args = <<Given(GetParams, "key")>>
                  /\ DOMAIN c.kwargs = {"default", "version", "client"}
                  /\ \A n \in DOMAIN c.kwargs : c.kwargs[n] = Given(GetParams, n)
             [] cache_call.method = "touch" ->
                  /\ c.args = <<Given(TouchParams, "key")>>
                  /\ DOMAIN c.kwargs = {"timeout", "version"}
                  /\ \A n \in DOMAIN c.kwargs : c.kwargs[n] = Given(TouchParams, n)
             [] OTHER -> c = cache_call

\* C7 witness: delete_pattern called without itersize, the client returns.
C7_Witness ==
    /\ Called
    /\ cache_call.method = "delete_pattern"
    /\ "itersize" \notin DOMAIN cache_call.kwargs
    /\ client_out = Return(V_Obj(1))
    /\ outcome = Return(V_Obj(1))
    /\ client_calls[1].kwargs["itersize"] = V_Int(DJANGO_REDIS_SCAN_ITERSIZE)

(***************************************************************************)
(* Properties of exception_handler and APIView.dispatch.                   *)
(***************************************************************************)
\* the hooks of dispatch, in the order the pipeline names them
HookOrder == <<"negotiation", "authentication", "permissions", "throttles",
               "handler", "finalize_response">>
IsHook(h) == \E i \in 1..Len(HookOrder) : HookOrder[i] = h
Rank(h) == CHOOSE i \in 1..Len(HookOrder) : HookOrder[i] = h
\* the hooks dispatch has run so far
HooksRun == SelectSeq(hooks, IsHook)
HasRun(step) == \E i \in 1..Len(hooks) : hooks[i] = step

IsPrefix(s, t) == Len(s) <= Len(t) /\ s = SubSeq(t, 1, Len(s))

\* the steps of initial()
InitialSteps ==
    {"negotiation", "version", "authentication", "permissions", "throttles"}
\* initial() has returned without raising
ChecksPassed ==
    /\ pc \in {"handler", "handle_exception", "finalize", "returned", "raised"}
    /\ raised_in \notin InitialSteps

\* C1: no hook ever runs before an earlier one of the order negotiation,
\* authentication, permissions, throttles, handler, finalize_response; for a
\* request whose checks all pass the hooks run are a prefix of that order
\* holding the four checks, and all six once dispatch has returned.
C1_HooksRunInFixedOrder ==
    /\ \A i, j \in 1..Len(HooksRun) :
          i < j => Rank(HooksRun[i]) < Rank(HooksRun[j])
    /\ ChecksPassed =>
          /\ IsPrefix(HooksRun, HookOrder)
          /\ Len(HooksRun) >= 4
          /\ pc = "returned" => HooksRun = HookOrder

\* C1 witness: a request passes every check, its handler returns a response
\* and dispatch returns it.
C1_Witness ==
    /\ pc = "returned"
    /\ raised_in = ""
    /\ handler = "view_method"
    /\ HooksRun = HookOrder
    /\ self_response # None
    /\ ~self_response[1].exception

\* C2: the handler is invoked only when every step of initial() completed
\* without raising; when one of them raises an exception that the exception
\* handler turns into a response, no handler is invoked and dispatch does
\* not raise: what it returns is that response, marked as an exception
\* response and passed through finalize_response.
C2_HandlerOnlyAfterChecks ==
    /\ HasRun("handler") =>
          \A s \in InitialSteps : HasRun(s) /\ raised_in # s
    /\ raised_in \in InitialSteps => (handler = "" /\ ~HasRun("handler"))
    /\ (raised_in \in InitialSteps /\ handler_result # None) =>
          /\ pc \in {"finalize", "returned"}
          /\ pc = "returned" =>
                /\ hooks[Len(hooks)] = "finalize_response"
                /\ self_response =
                      Some(finalize_response(
                             [handler_result[1] EXCEPT !.exception = TRUE],
                             n_renderers))

\* C2 witness: a throttle denies the request and dispatch returns the
\* finalized Throttled response without a handler having run.
C2_Witness ==
    /\ pc = "returned"
    /\ raised_in = "throttles"
    /\ handler = ""
    /\ self_response # None
    /\ self_response[1].status = DefaultStatusCode("Throttled")
    /\ self_response[1].exception
    /\ "Allow" \in DOMAIN self_response[1].headers

\* C8: exception_handler returns a response for Http404 (with the status of
\* NotFound), for Django's PermissionDenied (with the status of the REST
\* PermissionDenied) and for an APIException (with its status_code, the body
\* being exc.detail itself when a list or dict and {'detail': exc.detail}
\* otherwise), and None for every other exception.
C8_ExceptionHandlerCases ==
    HasRun("handle_exception") =>
        CASE exc.type = "Http404" ->
               /\ handler_result # None
               /\ handler_result[1].status = DefaultStatusCode("NotFound")
          [] exc.type = "DjangoPermissionDenied" ->
               /\ handler_result # None
               /\ handler_result[1].status = DefaultStatusCode("PermissionDenied")
          [] exc.type \in APIExceptionTypes ->
               /\ handler_result # None
               /\ handler_result[1].status = exc.status_code
               /\ handler_result[1].data =
                     IF exc.detail[1] \in {"list", "dict"}
                     THEN <<"is", exc.detail>>
                     ELSE <<"detail", exc.detail>>
          [] OTHER -> handler_result = None

\* C8 witness: Django's PermissionDenied, raised by a handler, has become a
\* response with the status of the REST PermissionDenied.
C8_Witness ==
    /\ HasRun("handle_exception")
    /\ exc.type = "DjangoPermissionDenied"
    /\ handler_result # None
    /\ handler_result[1].status = HTTP_403_FORBIDDEN
    /\ handler_result[1].data = <<"detail", Detail("str")>>

\* C9: when the exception handler returns None for an exception raised in
\* initial() or by the handler, dispatch raises that same exception,
\* finalize_response is not called and self.response is not set.
C9_UnhandledExceptionReraised ==
    (pc = "raised" /\ raised_in # "" /\ handler_result = None) =>
        /\ dispatch_raised = exc
        /\ dispatch_raised = raised_exc
        /\ ~HasRun("finalize_response")
        /\ self_response = None

\* the view's first authenticator returns a non-empty authenticate header
FirstHeaderNonEmpty ==
    /\ Len(authenticators) >= 1
    /\ authenticators[1] \notin {None, Some("")}

\* C10: for NotAuthenticated and AuthenticationFailed, handle_exception
\* gives a 401 response with a WWW-Authenticate header when the view's first
\* authenticator returns a non-empty header, and otherwise a 403 response
\* without that header; an APIException of another type keeps its status.
C10_AuthFailureStatus ==
    (HasRun("handle_exception") /\ IsAPIException(raised_exc)) =>
        /\ handler_result # None
        /\ LET r == handler_result[1] IN
           IF raised_exc.type \in {"NotAuthenticated", "AuthenticationFailed"}
           THEN IF FirstHeaderNonEmpty
                THEN /\ r.status = 401
                     /\ "WWW-Authenticate" \in DOMAIN r.headers
                     /\ r.headers["WWW-Authenticate"][1] = authenticators[1][1]
                ELSE /\ r.status = 403
                     /\ "WWW-Authenticate" \notin DOMAIN r.headers
           ELSE r.status = raised_exc.status_code

\* C10 witness: the first authenticator returns no header and the second
\* one does; NotAuthenticated becomes a 403 without WWW-Authenticate.
C10_Witness ==
    /\ HasRun("handle_exception")
    /\ raised_exc.type = "NotAuthenticated"
    /\ Len(authenticators) = 2
    /\ authenticators[1] = None
    /\ authenticators[2] = Some("Basic")
    /\ handler_result # None
    /\ handler_result[1].status = 403
    /\ "WWW-Authenticate" \notin DOMAIN handler_result[1].headers

\* the first permission of the view that denies the request, 0 when all allow
FirstDenial ==
    IF \E i \in 1..Len(permissions) : ~permissions[i].allow
    THEN CHOOSE i \in 1..Len(permissions) :
            ~permissions[i].allow /\ \A j \in 1..(i - 1) : permissions[j].allow
    ELSE 0

\* C11: check_permissions consults the permissions in list order up to and
\* including the first whose has_permission is false, and no later one; it
\* then raises NotAuthenticated when the request has authenticators but no
\* successful authenticator, and otherwise PermissionDenied carrying that
\* permission's message; when every permission allows it raises nothing.
C11_PermissionsStopAtFirstDenial ==
    HasRun("permissions") =>
        IF FirstDenial = 0
        THEN /\ consulted = [i \in 1..Len(permissions) |-> i]
             /\ raised_in # "permissions"
        ELSE /\ consulted = [i \in 1..FirstDenial |-> i]
             /\ raised_in = "permissions"
             /\ IF authenticators # <<>> /\ ~successful_authenticator
                THEN raised_exc.type = "NotAuthenticated"
                ELSE /\ raised_exc.type = "PermissionDenied"
                     /\ LET m == permissions[FirstDenial].message IN
                        IF m = None
                        THEN raised_exc.detail = Detail("str")
                        ELSE raised_exc.detail = <<"str", m[1]>>

\* C11 witness: the first of two denying permissions stops the loop for an
\* authenticated request; its message is the one raised.
C11_Witness ==
    /\ HasRun("permissions")
    /\ Len(permissions) = 2
    /\ ~permissions[1].allow /\ permissions[1].message = Some(1)
    /\ ~permissions[2].allow /\ permissions[2].message = Some(2)
    /\ successful_authenticator
    /\ consulted = <<1>>
    /\ raised_exc.type = "PermissionDenied"
    /\ raised_exc.detail = <<"str", 1>>

\* the request method has no handler method: it is not in
\* http_method_names, or the view defines no method of that name
NoHandlerMethod == ~method_in_names \/ ~view_defines_method

\* C12: when the request method has no handler method, dispatch calls no
\* method of the view; once the checks of initial() have passed it raises
\* MethodNotAllowed inside the try block, so dispatch does not raise: the
\* caller gets the finalized method-not-allowed error response.
C12_MethodNotAllowedResponse ==
    NoHandlerMethod =>
        /\ handler # "view_method"
        /\ (ChecksPassed /\ HasRun("handler")) =>
              /\ handler = "http_method_not_allowed"
              /\ raised_in = "handler"
              /\ raised_exc.type = "MethodNotAllowed"
              /\ pc \in {"handle_exception", "finalize", "returned"}
              /\ dispatch_raised = NoException
              /\ pc = "returned" =>
                    /\ hooks[Len(hooks)] = "finalize_response"
                    /\ self_response # None
                    /\ self_response[1].status =
                          DefaultStatusCode("MethodNotAllowed")
                    /\ self_response[1].exception
                    /\ self_response[1].renderer
                    /\ "Allow" \in DOMAIN self_response[1].headers

\* C12 witness: the view defines the method but http_method_names does not
\* list it; dispatch has returned the method-not-allowed response.
C12_Witness ==
    /\ ~method_in_names
    /\ view_defines_method
    /\ pc = "returned"
    /\ handler = "http_method_not_allowed"
    /\ raised_exc.type = "MethodNotAllowed"
    /\ self_response # None
    /\ self_response[1].status = DefaultStatusCode("MethodNotAllowed")
    /\ self_response[1].exception

====
